---- MODULE Spec2Model ----
(***************************************************************************)
(* Model of the artifact-parameter pipelines of prisma-generator-nestjs-dto *)
(* (computeEntityParams, computeCreateDtoParams, computeUpdateDtoParams).   *)
(* The caller owns a set of entities (models); each pipeline call folds     *)
(* over the fields of one entity, mutating the field records in place, and  *)
(* returns an artifact parameter record or throws.                          *)
(***************************************************************************)
EXTENDS Integers, Sequences, FiniteSets, TLC

VARIABLES
    models,     \* the caller's entity set: model name -> sequence of field records (mutable)
    pristine,   \* the entity set as it was supplied (never written; used to state frame claims)
    config,     \* templateHelpers.config: [noDependencies, classValidation]
    last        \* the last pipeline call and what it returned or threw

vars == <<models, pristine, config, last>>

\* ------------------------------------------------------------------ bounds
MaxFields == 2      \* number of fields of the entity under test
MaxDocAppends == 2  \* cap on the number of suffixes a pipeline appends to one field's documentation

\* ------------------------------------------------------------- annotations
DTO_ENTITY_HIDDEN == "DtoEntityHidden"
DTO_CREATE_HIDDEN == "DtoCreateHidden"
DTO_UPDATE_HIDDEN == "DtoUpdateHidden"
DTO_RELATION_REQUIRED == "DtoRelationRequired"
DTO_CREATE_OPTIONAL == "DtoCreateOptional"
DTO_UPDATE_OPTIONAL == "DtoUpdateOptional"
DTO_TYPE_FULL_UPDATE == "DtoTypeFullUpdate"
DTO_RELATION_INCLUDE_ID == "DtoRelationIncludeId"
DTO_RELATION_CAN_CREATE_ON_CREATE == "DtoRelationCanCreateOnCreate"
DTO_RELATION_CAN_CONNECT_ON_CREATE == "DtoRelationCanConnectOnCreate"
DTO_RELATION_CAN_CREATE_ON_UPDATE == "DtoRelationCanCreateOnUpdate"
DTO_RELATION_CAN_CONNECT_ON_UPDATE == "DtoRelationCanConnectOnUpdate"
DTO_RELATION_CAN_UPDATE_ON_UPDATE == "DtoRelationCanUpdateOnUpdate"
DTO_CREATE_API_RESP == "DtoCreateApiResponse"
DTO_UPDATE_API_RESP == "DtoUpdateApiResponse"

DTO_RELATION_MODIFIERS_ON_CREATE ==
    {DTO_RELATION_CAN_CREATE_ON_CREATE, DTO_RELATION_CAN_CONNECT_ON_CREATE}

DTO_RELATION_MODIFIERS_ON_UPDATE ==
    {DTO_RELATION_CAN_CREATE_ON_UPDATE, DTO_RELATION_CAN_CONNECT_ON_UPDATE,
     DTO_RELATION_CAN_UPDATE_ON_UPDATE}

\* ------------------------------------------------------------ type names
\* A type or symbol name.  `base` is a scalar/enum/model name, `form` the
\* naming convention applied to it ("" = the declared name itself) and `via`
\* the field a synthesized relation-input class is named after (0 = none).
Ty(b) == [base |-> b, form |-> "", via |-> 0]

Named(b, f) == [base |-> b, form |-> f, via |-> 0]

NoType == [base |-> "", form |-> "", via |-> 0]

\* templateHelpers naming conventions
entityName(t) == Named(t.base, "Entity")

plainDtoName(t) == Named(t.base, "PlainDto")

createDtoName(t) == Named(t.base, "CreateDto")

updateDtoName(t) == Named(t.base, "UpdateDto")

connectDtoName(t) == Named(t.base, "ConnectDto")

\* ---------------------------------------------------------- import records
\* `from` of a library import
Lib(l) == [dir |-> l, file |-> ""]

\* `from` of a cross-entity import: relative path to the target's output
\* directory plus the file name of the artifact named n
CrossFrom(n) == [dir |-> n.base, file |-> n.form]

Import(from, destruct) == [from |-> from, destruct |-> destruct]

IsCrossImport(imp) == imp.from.file # ""

\* ---------------------------------------------------------- sequence helpers
SeqToSet(s) == {s[i] : i \in 1..Len(s)}

\* ------------------------------------------------------- field classifiers
isAnnotatedWith(field, annotation) == annotation \in field.annotations

isAnnotatedWithOneOf(field, annotations) ==
    \E a \in annotations : isAnnotatedWith(field, a)

isRelation(field) == field.kind = "relation"

isType(field) == field.kind = "type"

isRequired(field) == field.isRequired

isId(field) == field.isId

isReadOnly(field) == field.isReadOnly

isUpdatedAt(field) == field.isUpdatedAt

isIdWithDefaultValue(field) == field.isId /\ field.hasDefaultValue

isRequiredWithDefaultValue(field) == field.isRequired /\ field.hasDefaultValue

\* ---------------------------------------------------- relation scalar index
\* scalar field name -> names of the relation fields that list it as a foreign key
getRelationScalars(fields) ==
    [s \in UNION {fields[i].relationFromFields : i \in 1..Len(fields)} |->
        {fields[i].name : i \in {j \in 1..Len(fields) : s \in fields[j].relationFromFields}}]

\* ------------------------------------------------------------------ helpers
concatIntoArray(source, target) == target \o source

\* push the items of source whose name is not yet in target
RECURSIVE concatUniqueIntoArray(_, _)
concatUniqueIntoArray(source, target) ==
    IF source = <<>> THEN target
    ELSE concatUniqueIntoArray(
            Tail(source),
            IF \E i \in 1..Len(target) : target[i].name = Head(source).name
            THEN target ELSE Append(target, Head(source)))

\* { ...field, ...overrides, ...decorators }
mapDMMFToParsedField(field, overrides, decorators) == decorators @@ overrides @@ field

\* the output list with the field put in front of the fields before it
PrependToResult(result, parsed) == <<parsed>> \o result

\* "return [...result, mapDMMFToParsedField(field, overrides, decorators)]"
AppendToResult(result, parsed) == Append(result, parsed)

\* a record's key is set
Has(rec, key) == key \in DOMAIN rec

\* rec with key set to val
With(rec, key, val) == (key :> val) @@ rec

\* ------------------------------------------------- annotation-spec builders
Sym(n) == [base |-> n, form |-> "lib", via |-> 0]

Decorator(n, v) == [name |-> n, value |-> v]

\* scalar types that PrismaScalarToFormat maps to a documentation format
PrismaScalarToFormat == {"Int", "BigInt", "Float", "Decimal", "DateTime"}

\* documentation-annotation specs of a field: type hint (when asked for),
\* requiredness and nullability
parseApiProperty(field, includeType) ==
    (IF includeType THEN <<Decorator("type", field.type)>> ELSE <<>>)
    \o (IF ~field.isRequired THEN <<Decorator("required", NoType)>> ELSE <<>>)
    \o (IF (IF Has(field, "isNullable") THEN field.isNullable ELSE ~field.isRequired)
        THEN <<Decorator("nullable", NoType)>> ELSE <<>>)

\* validation-annotation specs of a field; typeHint names the class a nested
\* value is coerced to
parseClassValidators(field, typeHint) ==
    <<Decorator(IF field.isRequired THEN "IsNotEmpty" ELSE "IsOptional", NoType)>>
    \o (IF field.isList THEN <<Decorator("IsArray", NoType)>> ELSE <<>>)
    \o (IF field.kind \in {"relation", "type"}
        THEN <<Decorator("ValidateNested", NoType), Decorator("Type", typeHint)>>
        ELSE <<>>)

\* alphabetical rank of a validator name, for Array.prototype.sort
ValidatorRank(n) ==
    CASE n = "IsArray" -> 1
      [] n = "IsNotEmpty" -> 2
      [] n = "IsOptional" -> 3
      [] n = "ValidateNested" -> 4
      [] OTHER -> 5

\* the validator names other than Type, sorted
RECURSIVE SortedValidatorNames(_)
SortedValidatorNames(names) ==
    IF names = {} THEN <<>>
    ELSE LET m == CHOOSE n \in names : \A o \in names : ValidatorRank(n) <= ValidatorRank(o)
         IN  <<Sym(m)>> \o SortedValidatorNames(names \ {m})

\* ---------------------------------------------------------- client imports
\* the enum types of the output fields, in field order, without duplicates
RECURSIVE EnumsToImport(_, _)
EnumsToImport(fields, seen) ==
    IF fields = <<>> THEN <<>>
    ELSE LET f == Head(fields)
             take == f.kind = "enum" /\ f.type \notin seen
         IN  (IF take THEN <<f.type>> ELSE <<>>)
             \o EnumsToImport(Tail(fields), IF take THEN seen \cup {f.type} ELSE seen)

makeImportsFromPrismaClient(fields) ==
    LET enums == EnumsToImport(fields, {})
        importPrisma == \E i \in 1..Len(fields) :
                            /\ fields[i].kind = "scalar"
                            /\ fields[i].type \in {Ty("Decimal"), Ty("Json")}
        destruct == enums \o (IF importPrisma THEN <<Sym("Prisma")>> ELSE <<>>)
    IN  IF destruct = <<>> THEN <<>> ELSE <<Import(Lib("@prisma/client"), destruct)>>

\* -------------------------------------------------------- import canonicalizer
\* names of b that a does not have yet, appended to a
RECURSIVE MergeNames(_, _)
MergeNames(a, b) ==
    IF b = <<>> THEN a
    ELSE MergeNames(IF Head(b) \in SeqToSet(a) THEN a ELSE Append(a, Head(b)), Tail(b))

\* one record per source, at the place of the source's first record
RECURSIVE ZipInto(_, _)
ZipInto(result, items) ==
    IF items = <<>> THEN result
    ELSE LET item == Head(items)
             at == {i \in 1..Len(result) : result[i].from = item.from}
         IN  IF at = {}
             THEN ZipInto(Append(result, Import(item.from, MergeNames(<<>>, item.destruct))),
                          Tail(items))
             ELSE LET i == CHOOSE j \in at : TRUE
                  IN  ZipInto([result EXCEPT ![i].destruct = MergeNames(@, item.destruct)],
                              Tail(items))

zipImportStatementParams(items) == ZipInto(<<>>, items)

\* ------------------------------------------------- relation input synthesizer
\* The nested-input shape of a relation field: resolves the target, then one
\* import per enabled mode; one mode is a direct reference, several modes a
\* composite class named after the owning model and field.
generateRelationInput(field, modelName, allModelNames, cfg, prefix, canCreate, canConnect, canUpdate) ==
    LET refs == (IF isAnnotatedWith(field, canCreate)
                 THEN <<createDtoName(field.type)>> ELSE <<>>)
                \o (IF isAnnotatedWith(field, canConnect)
                    THEN <<connectDtoName(field.type)>> ELSE <<>>)
                \o (IF isAnnotatedWith(field, canUpdate)
                    THEN <<updateDtoName(field.type)>> ELSE <<>>)
        composite == [base |-> modelName, form |-> prefix, via |-> field.name]
        type == IF Len(refs) = 1 THEN refs[1] ELSE composite
    IN  [found |-> field.type.base \in allModelNames,
         type |-> type,
         imports |-> [i \in 1..Len(refs) |-> Import(CrossFrom(refs[i]), <<refs[i]>>)],
         generatedClasses |-> IF Len(refs) > 1 THEN <<composite>> ELSE <<>>,
         apiExtraModels |-> IF cfg.noDependencies \/ Len(refs) <= 1 THEN <<>>
                            ELSE Append(refs, composite),
         classValidators |-> IF cfg.classValidation
                             THEN <<Decorator("ValidateNested", NoType), Decorator("Type", type)>>
                             ELSE <<>>]

\* ------------------------------------------------------- shared pipeline parts
NoError == [raised |-> FALSE, model |-> "", field |-> 0]

\* throw new Error(`related ... '${field.type}' for '${model.name}.${field.name}' not found`)
ResolutionError(modelName, field) == [raised |-> TRUE, model |-> modelName, field |-> field.name]

\* "don't double-import the same thing": push unless a record with that name and source exists
PushImport(imports, importName, importFrom) ==
    IF \E i \in 1..Len(imports) :
            importName \in SeqToSet(imports[i].destruct) /\ imports[i].from = importFrom
    THEN imports
    ELSE Append(imports, Import(importFrom, <<importName>>))

\* noDependencies replaces Json by Object and Decimal by Float, in the field itself
SubstituteType(field, cfg) ==
    IF ~cfg.noDependencies THEN field
    ELSE IF field.type = Ty("Json") THEN [field EXCEPT !.type = Ty("Object")]
    ELSE IF field.type = Ty("Decimal") THEN [field EXCEPT !.type = Ty("Float")]
    ELSE field

\* the accumulator st with field i of the entity replaced by f
Store(st, i, f) == [st EXCEPT !.fields[i] = f]

\* ------------------------------------------------------------ Entity pipeline
EntityInit(fields) ==
    [fields |-> fields, out |-> <<>>, imports |-> <<>>,
     hasApiProperty |-> FALSE, error |-> NoError]

\* the relation branch's import of the target's entity class
EntityRelationImportMissingSelfCheck(field, modelName, imports) ==
    PushImport(imports, entityName(field.type), CrossFrom(entityName(field.type)))

EntityRelationImport(field, modelName, imports) ==
    IF field.type.base # modelName
    THEN PushImport(imports, entityName(field.type), CrossFrom(entityName(field.type)))
    ELSE imports

\* isAnyRelationRequired that consults only the schema's required flag
IsAnyRelationRequiredBySchemaOnly(fields, relationNames) ==
    \E r \in relationNames :
        \E i \in 1..Len(fields) : fields[i].name = r /\ isRequired(fields[i])

IsAnyRelationRequired(fields, relationNames) ==
    \E r \in relationNames :
        \E i \in 1..Len(fields) :
            /\ fields[i].name = r
            /\ (isRequired(fields[i]) \/ isAnnotatedWith(fields[i], DTO_RELATION_REQUIRED))

\* the overrides of an output field: nullability from requiredness, the
\* relation rule, and last the foreign-key-scalar rule
EntityOverrides(field, fields, relationScalarFields) ==
    IF field.name \in DOMAIN relationScalarFields
    THEN [isRequired |-> TRUE,
          isNullable |-> ~IsAnyRelationRequired(fields, relationScalarFields[field.name])]
    ELSE IF isRelation(field)
    THEN [isRequired |-> isAnnotatedWith(field, DTO_RELATION_REQUIRED),
          isNullable |-> IF field.isList THEN FALSE
                         ELSE IF field.isRequired THEN FALSE
                         ELSE ~isAnnotatedWith(field, DTO_RELATION_REQUIRED)]
    ELSE [isRequired |-> TRUE, isNullable |-> ~field.isRequired]

\* the nested-type branch's import of the target's plain DTO
EntityTypeImport(field, modelName, imports) ==
    IF isType(field) /\ field.type.base # modelName
    THEN PushImport(imports, plainDtoName(field.type), CrossFrom(plainDtoName(field.type)))
    ELSE imports

\* the field needs the coercion decorator: no format, not a primitive, not an enum
EntityTypeDecorator(field) ==
    /\ field.type.base \notin PrismaScalarToFormat
    /\ field.type.base \notin {"String", "Json", "Boolean"}
    /\ field.kind # "enum"

EntityApiProperties(field) ==
    parseApiProperty([isNullable |-> ~field.isRequired] @@ field, TRUE)
    \o (IF field.type.base \notin PrismaScalarToFormat
        THEN <<Decorator("type", field.type)>> ELSE <<>>)
    \o (IF EntityTypeDecorator(field)
        THEN <<Decorator("type_decorator", field.type)>> ELSE <<>>)

\* the imports array after the field: type import, relation import, and the
\* coercion library unshifted to the front
EntityImports(imports, field, modelName, cfg) ==
    (IF ~cfg.noDependencies /\ EntityTypeDecorator(field)
     THEN <<Import(Lib("class-transformer"), <<Sym("Type")>>)>> ELSE <<>>)
    \o (IF isRelation(field)
        THEN EntityRelationImport(field, modelName, EntityTypeImport(field, modelName, imports))
        ELSE EntityTypeImport(field, modelName, imports))

\* the body of the reduce callback of computeEntityParams for field i
EntityField(st, i, modelName, allModelNames, cfg, relationScalarFields) ==
    LET field == st.fields[i]
    IN  IF isAnnotatedWith(field, DTO_ENTITY_HIDDEN) THEN st
        ELSE IF /\ isType(field) \/ isRelation(field)
                /\ field.type.base # modelName
                /\ field.type.base \notin allModelNames
        THEN [st EXCEPT !.error = ResolutionError(modelName, field)]
        ELSE [st EXCEPT
                !.fields[i] = SubstituteType(field, cfg),
                !.imports = EntityImports(@, field, modelName, cfg),
                !.hasApiProperty = @ \/ (~cfg.noDependencies /\ EntityApiProperties(field) # <<>>),
                !.out = AppendToResult(@, mapDMMFToParsedField(
                                      SubstituteType(field, cfg),
                                      EntityOverrides(field, st.fields, relationScalarFields),
                                      IF cfg.noDependencies THEN <<>>
                                      ELSE [apiProperties |-> EntityApiProperties(field)]))]

RECURSIVE EntityFold(_, _, _, _, _, _)
EntityFold(st, i, modelName, allModelNames, cfg, relationScalarFields) ==
    IF i > Len(st.fields) \/ st.error.raised THEN st
    ELSE EntityFold(EntityField(st, i, modelName, allModelNames, cfg, relationScalarFields),
                    i + 1, modelName, allModelNames, cfg, relationScalarFields)

\* what a pipeline hands back: the mutated entity, the record or the error,
\* and the list it handed to the canonicalizer
Outcome(fields, error, record, handed) ==
    [fields |-> fields, error |-> error, record |-> record, handed |-> handed]

NoRecord == [fields |-> <<>>, imports |-> <<>>, extraClasses |-> <<>>, apiExtraModels |-> <<>>]

computeEntityParams(modelName, allModels, cfg) ==
    LET st == EntityFold(EntityInit(allModels[modelName]), 1, modelName, DOMAIN allModels, cfg,
                         getRelationScalars(allModels[modelName]))
        imports1 == IF st.hasApiProperty
                    THEN <<Import(Lib("@nestjs/swagger"), <<Sym("ApiProperty")>>)>> \o st.imports
                    ELSE st.imports
        imports2 == <<Import(Lib("class-transformer"), <<Sym("Expose")>>)>> \o imports1
        handed == makeImportsFromPrismaClient(st.out) \o imports2
    IN  IF st.error.raised THEN Outcome(st.fields, st.error, NoRecord, <<>>)
        ELSE Outcome(st.fields, NoError,
                     [fields |-> st.out, imports |-> zipImportStatementParams(handed),
                      extraClasses |-> <<>>, apiExtraModels |-> <<>>],
                     handed)

\* ------------------------------------------------------ Create/Update shared
DtoInit(fields) ==
    [fields |-> fields, out |-> <<>>, imports |-> <<>>, extraClasses |-> <<>>,
     apiExtraModels |-> <<>>, classValidators |-> <<>>,
     hasApiProperty |-> FALSE, hasApiRespProperty |-> FALSE, error |-> NoError]

\* the read-only flag cleared for every include-identifier field, foreign key or not
ClearReadOnlyOfAnyIncludeId(field, relationScalarFieldNames) ==
    IF isAnnotatedWith(field, DTO_RELATION_INCLUDE_ID)
    THEN [field EXCEPT !.isReadOnly = FALSE]
    ELSE field

\* "if (include-id && is a relation scalar) field.isReadOnly = false", written to the field
ClearReadOnly(field, relationScalarFieldNames) ==
    IF isAnnotatedWith(field, DTO_RELATION_INCLUDE_ID) /\ field.name \in relationScalarFieldNames
    THEN [field EXCEPT !.isReadOnly = FALSE]
    ELSE field

\* the library imports pushed behind the cross-entity imports instead of unshifted
DtoLibraryImportsPushed(st) ==
    LET destruct == (IF st.apiExtraModels # <<>> THEN <<Sym("ApiExtraModels")>> ELSE <<>>)
                    \o (IF st.hasApiProperty THEN <<Sym("ApiProperty")>> ELSE <<>>)
                    \o (IF st.hasApiRespProperty THEN <<Sym("ApiResponseProperty")>> ELSE <<>>)
        imports1 == IF destruct # <<>>
                    THEN Append(st.imports, Import(Lib("@nestjs/swagger"), destruct))
                    ELSE st.imports
        names == {st.classValidators[i].name : i \in 1..Len(st.classValidators)}
        imports2 == IF "Type" \in names
                    THEN <<Import(Lib("class-transformer"), <<Sym("Type")>>)>> \o imports1
                    ELSE imports1
    IN  IF st.classValidators = <<>> THEN imports1
        ELSE <<Import(Lib("class-validator"), SortedValidatorNames(names \ {"Type"}))>>
             \o imports2

\* the imports array after the fold: documentation library, then coercion and
\* validation library, each unshifted to the front
DtoLibraryImports(st) ==
    LET destruct == (IF st.apiExtraModels # <<>> THEN <<Sym("ApiExtraModels")>> ELSE <<>>)
                    \o (IF st.hasApiProperty THEN <<Sym("ApiProperty")>> ELSE <<>>)
                    \o (IF st.hasApiRespProperty THEN <<Sym("ApiResponseProperty")>> ELSE <<>>)
        imports1 == IF destruct # <<>>
                    THEN <<Import(Lib("@nestjs/swagger"), destruct)>> \o st.imports
                    ELSE st.imports
        names == {st.classValidators[i].name : i \in 1..Len(st.classValidators)}
        imports2 == IF "Type" \in names
                    THEN <<Import(Lib("class-transformer"), <<Sym("Type")>>)>> \o imports1
                    ELSE imports1
    IN  IF st.classValidators = <<>> THEN imports1
        ELSE <<Import(Lib("class-validator"), SortedValidatorNames(names \ {"Type"}))>>
             \o imports2

DtoOutcome(st) ==
    LET handed == makeImportsFromPrismaClient(st.out) \o DtoLibraryImports(st)
    IN  IF st.error.raised THEN Outcome(st.fields, st.error, NoRecord, <<>>)
        ELSE Outcome(st.fields, NoError,
                     [fields |-> st.out, imports |-> zipImportStatementParams(handed),
                      extraClasses |-> st.extraClasses, apiExtraModels |-> st.apiExtraModels],
                     handed)

\* the nested-structured-type branch: import the target's DTO unless it is the model itself
TypeImport(st, field, modelName, importName) ==
    IF isType(field) /\ field.type.base # modelName
    THEN [st EXCEPT !.imports = PushImport(@, importName, CrossFrom(importName))]
    ELSE st

\* the nested-type lookup that never fails
TypeUnresolvedNever(field, modelName, allModelNames) == FALSE

TypeUnresolved(field, modelName, allModelNames) ==
    isType(field) /\ field.type.base # modelName /\ field.type.base \notin allModelNames

\* ------------------------------------------------------------ Create pipeline
\* hide-from-create that create-optional would undo
IsCreateHiddenUnlessOptional(field) ==
    isAnnotatedWith(field, DTO_CREATE_HIDDEN) /\ ~isAnnotatedWith(field, DTO_CREATE_OPTIONAL)

IsCreateHidden(field) == isAnnotatedWith(field, DTO_CREATE_HIDDEN)

\* the default-value drop that create-optional does not lift
CreateDefaultDropIgnoringOptional(field, isDtoOptional) ==
    isIdWithDefaultValue(field) \/ isUpdatedAt(field) \/ isRequiredWithDefaultValue(field)

\* "if (!isDtoOptional) { id with default, updatedAt, required with default: return }"
CreateDefaultDrop(field, isDtoOptional) ==
    ~isDtoOptional
    /\ (isIdWithDefaultValue(field) \/ isUpdatedAt(field) \/ isRequiredWithDefaultValue(field))

\* "list fields can not be required"
CreateCompositeRequiredIgnoringList(field) ==
    IF isAnnotatedWith(field, DTO_RELATION_REQUIRED) THEN [isRequired |-> TRUE] ELSE <<>>

CreateCompositeRequired(field) ==
    IF field.isList THEN [isRequired |-> FALSE]
    ELSE IF isAnnotatedWith(field, DTO_RELATION_REQUIRED) THEN [isRequired |-> TRUE]
    ELSE <<>>

\* the value of the synthesizer's Type validator, if it made one
TypeValidatorValue(classValidators) ==
    IF \E j \in 1..Len(classValidators) : classValidators[j].name = "Type"
    THEN classValidators[CHOOSE j \in 1..Len(classValidators) :
                            classValidators[j].name = "Type"].value
    ELSE NoType

\* what the relation branch of computeCreateDtoParams does with the synthesized
\* input rit: the accumulator, the field and the overrides it leaves
CreateRelationBranches(st, field, rit, modelName, cfg) ==
    IF ~rit.found
    THEN [st |-> [st EXCEPT !.error = ResolutionError(modelName, field)],
          field |-> field, ov |-> <<>>]
    ELSE IF Len(rit.imports) > 1
    THEN [st |-> [st EXCEPT
                    !.imports = concatIntoArray(rit.imports, @),
                    !.extraClasses = concatIntoArray(rit.generatedClasses, @),
                    !.apiExtraModels = IF cfg.noDependencies THEN @
                                       ELSE concatIntoArray(rit.apiExtraModels, @),
                    !.classValidators = concatUniqueIntoArray(rit.classValidators, @)],
          field |-> field,
          ov |-> [type |-> rit.type] @@ CreateCompositeRequired(field)]
    ELSE [st |-> [st EXCEPT !.imports = concatIntoArray(rit.imports, @)],
          field |-> IF TypeValidatorValue(rit.classValidators) # NoType
                    THEN [field EXCEPT
                            !.documentation = Append(@, TypeValidatorValue(rit.classValidators))]
                    ELSE field,
          ov |-> IF TypeValidatorValue(rit.classValidators) # NoType
                 THEN [type |-> TypeValidatorValue(rit.classValidators)] ELSE <<>>]

\* the relation branch of computeCreateDtoParams, after the modifier gate
CreateRelation(st, field, modelName, allModelNames, cfg) ==
    CreateRelationBranches(
        st, field,
        generateRelationInput(field, modelName, allModelNames, cfg, "CreateRelationInput",
                              DTO_RELATION_CAN_CREATE_ON_CREATE,
                              DTO_RELATION_CAN_CONNECT_ON_CREATE,
                              DTO_RELATION_CAN_UPDATE_ON_UPDATE),
        modelName, cfg)

\* the overrides of a kept field: the relation branch's, then create-optional,
\* then the response-annotation flag
CreateOverrides(field, relOv, cfg) ==
    [createApiResp |-> ~cfg.noDependencies /\ isAnnotatedWith(field, DTO_CREATE_API_RESP)]
    @@ (IF isAnnotatedWith(field, DTO_CREATE_OPTIONAL) THEN [isRequired |-> FALSE] ELSE <<>>)
    @@ relOv

CreateValidators(field, ov) ==
    parseClassValidators(ov @@ field,
                         IF Has(ov, "type") THEN ov.type ELSE createDtoName(field.type))

CreateApiProperties(field, ov) ==
    parseApiProperty(field, ~Has(ov, "type"))
    \o (IF field.isList THEN <<Decorator("isArray", NoType)>> ELSE <<>>)
    \o (IF Has(ov, "type") THEN <<Decorator("type", ov.type)>> ELSE <<>>)

\* the decorators object of an output field
Decorators(cfg, validators, api) ==
    (IF cfg.classValidation THEN [classValidators |-> validators] ELSE <<>>)
    @@ (IF cfg.noDependencies THEN <<>> ELSE [apiProperties |-> api])

\* the tail of the callback: annotation synthesis, type substitution, output
CreateEmit(st, i, field, ov, cfg) ==
    [st EXCEPT
        !.classValidators = IF cfg.classValidation
                            THEN concatUniqueIntoArray(CreateValidators(field, ov), @)
                            ELSE @,
        !.hasApiRespProperty = @ \/ ov.createApiResp,
        !.hasApiProperty = @ \/ (~cfg.noDependencies /\ CreateApiProperties(field, ov) # <<>>),
        !.fields[i] = SubstituteType(field, cfg),
        !.out = AppendToResult(@, mapDMMFToParsedField(
                              SubstituteType(field, cfg), ov,
                              Decorators(cfg, CreateValidators(field, ov),
                                         CreateApiProperties(field, ov))))]

\* the callback after the relation branch: foreign-key drop, default drops,
\* nested-type lookup, then the tail
CreateKeep(st, i, field, relOv, modelName, allModelNames, cfg, relationScalarFieldNames) ==
    IF ~isAnnotatedWith(field, DTO_RELATION_INCLUDE_ID) /\ field.name \in relationScalarFieldNames
    THEN st
    ELSE IF CreateDefaultDrop(field, isAnnotatedWith(field, DTO_CREATE_OPTIONAL)) THEN st
    ELSE IF TypeUnresolved(field, modelName, allModelNames)
    THEN [st EXCEPT !.error = ResolutionError(modelName, field)]
    ELSE CreateEmit(TypeImport(st, field, modelName, createDtoName(field.type)),
                    i, field, CreateOverrides(field, relOv, cfg), cfg)

\* the callback continues with what the relation branch left, unless it threw
CreateAfterRelation(rel, i, modelName, allModelNames, cfg, relationScalarFieldNames) ==
    IF rel.st.error.raised THEN rel.st
    ELSE CreateKeep(Store(rel.st, i, rel.field), i, rel.field, rel.ov,
                    modelName, allModelNames, cfg, relationScalarFieldNames)

\* the callback from the hidden check on, for the field as isReadOnly left it
CreateGate(st, i, field, modelName, allModelNames, cfg, relationScalarFieldNames) ==
    IF IsCreateHidden(field) THEN st
    ELSE IF isReadOnly(field) THEN st
    ELSE IF isRelation(field) /\ ~isAnnotatedWithOneOf(field, DTO_RELATION_MODIFIERS_ON_CREATE)
    THEN st
    ELSE IF isRelation(field)
    THEN CreateAfterRelation(CreateRelation(st, field, modelName, allModelNames, cfg),
                             i, modelName, allModelNames, cfg, relationScalarFieldNames)
    ELSE CreateKeep(st, i, field, <<>>, modelName, allModelNames, cfg, relationScalarFieldNames)

\* the body of the reduce callback of computeCreateDtoParams for field i
CreateField(st, i, modelName, allModelNames, cfg, relationScalarFieldNames) ==
    CreateGate(Store(st, i, ClearReadOnly(st.fields[i], relationScalarFieldNames)),
               i, ClearReadOnly(st.fields[i], relationScalarFieldNames),
               modelName, allModelNames, cfg, relationScalarFieldNames)

RECURSIVE CreateFold(_, _, _, _, _, _)
CreateFold(st, i, modelName, allModelNames, cfg, relationScalarFieldNames) ==
    IF i > Len(st.fields) \/ st.error.raised THEN st
    ELSE CreateFold(CreateField(st, i, modelName, allModelNames, cfg, relationScalarFieldNames),
                    i + 1, modelName, allModelNames, cfg, relationScalarFieldNames)

computeCreateDtoParams(modelName, allModels, cfg) ==
    DtoOutcome(CreateFold(DtoInit(allModels[modelName]), 1, modelName, DOMAIN allModels, cfg,
                          DOMAIN getRelationScalars(allModels[modelName])))

\* ------------------------------------------------------------ Update pipeline
\* what the relation branch of computeUpdateDtoParams does with the synthesized
\* input rit: the accumulator and the overrides it leaves
UpdateRelationBranches(st, field, rit, modelName, cfg) ==
    IF ~rit.found
    THEN [st |-> [st EXCEPT !.error = ResolutionError(modelName, field)], ov |-> <<>>]
    ELSE [st |-> [st EXCEPT
                    !.imports = concatIntoArray(rit.imports, @),
                    !.extraClasses = concatIntoArray(rit.generatedClasses, @),
                    !.apiExtraModels = IF cfg.noDependencies THEN @
                                       ELSE concatIntoArray(rit.apiExtraModels, @),
                    !.classValidators = concatUniqueIntoArray(rit.classValidators, @)],
          ov |-> [type |-> rit.type, isList |-> FALSE, isNullable |-> FALSE]]

\* the relation branch of computeUpdateDtoParams, after the modifier gate
UpdateRelation(st, field, modelName, allModelNames, cfg) ==
    UpdateRelationBranches(
        st, field,
        generateRelationInput(field, modelName, allModelNames, cfg, "UpdateRelationInput",
                              DTO_RELATION_CAN_CREATE_ON_UPDATE,
                              DTO_RELATION_CAN_CONNECT_ON_UPDATE,
                              DTO_RELATION_CAN_UPDATE_ON_UPDATE),
        modelName, cfg)

\* "if (!isDtoOptional) { id, updatedAt, required with default: return }"
UpdateDefaultDrop(field, isDtoOptional) ==
    ~isDtoOptional
    /\ (isId(field) \/ isUpdatedAt(field) \/ isRequiredWithDefaultValue(field))

\* the overrides of a kept field: the initial ones, the relation branch's,
\* then the response-annotation flag
UpdateOverrides(field, relOv, cfg) ==
    [updateApiResp |-> ~cfg.noDependencies /\ isAnnotatedWith(field, DTO_UPDATE_API_RESP)]
    @@ relOv
    @@ [isRequired |-> FALSE, isNullable |-> ~field.isRequired]

\* doFullUpdate ? createDtoName : updateDtoName
UpdateDtoNameFor(field) ==
    IF isAnnotatedWith(field, DTO_TYPE_FULL_UPDATE)
    THEN createDtoName(field.type) ELSE updateDtoName(field.type)

UpdateValidators(field, ov) ==
    parseClassValidators(ov @@ field,
                         IF Has(ov, "type") THEN ov.type
                         ELSE IF isType(field) THEN UpdateDtoNameFor(field)
                         ELSE updateDtoName(field.type))

UpdateApiProperties(field, ov) ==
    parseApiProperty([isNullable |-> ~field.isRequired] @@ ov @@ field, ~Has(ov, "type"))
    \o (IF Has(ov, "type") THEN <<Decorator("type", ov.type)>> ELSE <<>>)

\* the tail of the callback: annotation synthesis, type substitution, output
UpdateEmit(st, i, field, ov, cfg) ==
    [st EXCEPT
        !.classValidators = IF cfg.classValidation
                            THEN concatUniqueIntoArray(UpdateValidators(field, ov), @)
                            ELSE @,
        !.hasApiRespProperty = @ \/ ov.updateApiResp,
        !.hasApiProperty = @ \/ (~cfg.noDependencies /\ UpdateApiProperties(field, ov) # <<>>),
        !.fields[i] = SubstituteType(field, cfg),
        !.out = AppendToResult(@, mapDMMFToParsedField(
                              SubstituteType(field, cfg), ov,
                              Decorators(cfg, UpdateValidators(field, ov),
                                         UpdateApiProperties(field, ov))))]

\* the callback after the relation branch: foreign-key drop, default drops,
\* nested-type lookup, then the tail
UpdateKeep(st, i, field, relOv, modelName, allModelNames, cfg, relationScalarFieldNames) ==
    IF ~isAnnotatedWith(field, DTO_RELATION_INCLUDE_ID) /\ field.name \in relationScalarFieldNames
    THEN st
    ELSE IF UpdateDefaultDrop(field, isAnnotatedWith(field, DTO_UPDATE_OPTIONAL)) THEN st
    ELSE IF TypeUnresolved(field, modelName, allModelNames)
    THEN [st EXCEPT !.error = ResolutionError(modelName, field)]
    ELSE UpdateEmit(TypeImport(st, field, modelName, UpdateDtoNameFor(field)),
                    i, field, UpdateOverrides(field, relOv, cfg), cfg)

\* the callback continues with what the relation branch left, unless it threw
UpdateAfterRelation(rel, i, field, modelName, allModelNames, cfg, relationScalarFieldNames) ==
    IF rel.st.error.raised THEN rel.st
    ELSE UpdateKeep(rel.st, i, field, rel.ov,
                    modelName, allModelNames, cfg, relationScalarFieldNames)

\* the callback from the hidden check on, for the field as isReadOnly left it
UpdateGate(st, i, field, modelName, allModelNames, cfg, relationScalarFieldNames) ==
    IF isAnnotatedWith(field, DTO_UPDATE_HIDDEN) THEN st
    ELSE IF isReadOnly(field) THEN st
    ELSE IF isRelation(field) /\ ~isAnnotatedWithOneOf(field, DTO_RELATION_MODIFIERS_ON_UPDATE)
    THEN st
    ELSE IF isRelation(field)
    THEN UpdateAfterRelation(UpdateRelation(st, field, modelName, allModelNames, cfg),
                             i, field, modelName, allModelNames, cfg, relationScalarFieldNames)
    ELSE UpdateKeep(st, i, field, <<>>, modelName, allModelNames, cfg, relationScalarFieldNames)

\* the body of the reduce callback of computeUpdateDtoParams for field i
UpdateField(st, i, modelName, allModelNames, cfg, relationScalarFieldNames) ==
    UpdateGate(Store(st, i, ClearReadOnly(st.fields[i], relationScalarFieldNames)),
               i, ClearReadOnly(st.fields[i], relationScalarFieldNames),
               modelName, allModelNames, cfg, relationScalarFieldNames)

RECURSIVE UpdateFold(_, _, _, _, _, _)
UpdateFold(st, i, modelName, allModelNames, cfg, relationScalarFieldNames) ==
    IF i > Len(st.fields) \/ st.error.raised THEN st
    ELSE UpdateFold(UpdateField(st, i, modelName, allModelNames, cfg, relationScalarFieldNames),
                    i + 1, modelName, allModelNames, cfg, relationScalarFieldNames)

computeUpdateDtoParams(modelName, allModels, cfg) ==
    DtoOutcome(UpdateFold(DtoInit(allModels[modelName]), 1, modelName, DOMAIN allModels, cfg,
                          DOMAIN getRelationScalars(allModels[modelName])))

\* ------------------------------------------------------------- the entity set
\* A field shape is a field descriptor before it is given its name and its
\* foreign keys.  `link` marks a scalar as a foreign-key column and a relation
\* as one that lists the entity's foreign-key columns in relationFromFields.
Shape(kind, type, list, required, readOnly, default, annotations, link) ==
    [kind |-> kind, type |-> Ty(type), isList |-> list, isRequired |-> required,
     isReadOnly |-> readOnly, default |-> default, annotations |-> annotations,
     link |-> link]

\* the field descriptor of shape sh, named name, in an entity whose
\* foreign-key columns are fkNames
MakeField(sh, name, fkNames) ==
    [name |-> name, kind |-> sh.kind, type |-> sh.type, isList |-> sh.isList,
     isRequired |-> sh.isRequired, isReadOnly |-> sh.isReadOnly,
     isId |-> sh.default \in {"id", "idDefault"},
     hasDefaultValue |-> sh.default \in {"idDefault", "default"},
     isUpdatedAt |-> sh.default = "updatedAt",
     annotations |-> sh.annotations,
     relationFromFields |-> IF sh.kind = "relation" /\ sh.link THEN fkNames ELSE {},
     documentation |-> <<>>]

MakeFields(shapes) ==
    LET fkNames == {i \in 1..Len(shapes) : shapes[i].kind = "scalar" /\ shapes[i].link}
    IN  [i \in 1..Len(shapes) |-> MakeField(shapes[i], i, fkNames)]

\* the fields every schema draws its surroundings from
ContextShapes ==
    { Shape("scalar", "String", FALSE, TRUE, FALSE, "none", {}, FALSE),
      Shape("scalar", "Decimal", FALSE, FALSE, TRUE, "none", {DTO_RELATION_INCLUDE_ID}, TRUE),
      Shape("relation", "B", TRUE, FALSE, FALSE, "none",
            {DTO_RELATION_REQUIRED, DTO_RELATION_CAN_CREATE_ON_CREATE,
             DTO_RELATION_CAN_CONNECT_ON_CREATE, DTO_RELATION_CAN_CONNECT_ON_UPDATE}, TRUE),
      Shape("type", "B", FALSE, TRUE, FALSE, "none", {}, FALSE) }

\* sequence c with shape sh put in at place k
InsertAt(c, k, sh) ==
    [i \in 1..(Len(c) + 1) |-> IF i < k THEN c[i] ELSE IF i = k THEN sh ELSE c[i - 1]]

\* sequences of at most MaxFields shapes, one of them from subjects and the
\* others from ContextShapes
Schemas(subjects) ==
    UNION { { InsertAt(c, k, sh) : c \in [1..(n - 1) -> ContextShapes], k \in 1..n,
                                   sh \in subjects }
            : n \in 1..MaxFields }

\* the second entity of the set: fixed, with one scalar column
FieldsOfB == MakeFields(<<Shape("scalar", "Json", FALSE, TRUE, FALSE, "none", {}, FALSE)>>)

Configs == [noDependencies : BOOLEAN, classValidation : BOOLEAN]

NoCall == [op |-> "none", model |-> "", error |-> NoError, record |-> NoRecord, handed |-> <<>>]

InitWith(subjects) ==
    /\ \E s \in Schemas(subjects) : models = [m \in {"A", "B"} |->
                                                IF m = "A" THEN MakeFields(s) ELSE FieldsOfB]
    /\ pristine = models
    /\ config \in Configs
    /\ last = NoCall

\* ------------------------------------------------------------------ actions
Called(op, m, o) ==
    /\ models' = [models EXCEPT ![m] = o.fields]
    /\ last' = [op |-> op, model |-> m, error |-> o.error, record |-> o.record,
                handed |-> o.handed]
    /\ UNCHANGED <<pristine, config>>

ComputeEntity(m) ==
    \E o \in {computeEntityParams(m, models, config)} : Called("entity", m, o)

ComputeCreate(m) ==
    \E o \in {computeCreateDtoParams(m, models, config)} :
        /\ \A i \in 1..Len(o.fields) : Len(o.fields[i].documentation) <= MaxDocAppends
        /\ Called("create", m, o)

ComputeUpdate(m) ==
    \E o \in {computeUpdateDtoParams(m, models, config)} : Called("update", m, o)

Next ==
    \E m \in DOMAIN models :
        \/ ComputeEntity(m)
        \/ ComputeCreate(m)
        \/ ComputeUpdate(m)

\* ------------------------------------------------------------ subject shapes
HideSets == SUBSET {DTO_ENTITY_HIDDEN, DTO_CREATE_HIDDEN, DTO_UPDATE_HIDDEN}

AllModes == {DTO_RELATION_CAN_CREATE_ON_CREATE, DTO_RELATION_CAN_CONNECT_ON_CREATE,
             DTO_RELATION_CAN_CREATE_ON_UPDATE, DTO_RELATION_CAN_CONNECT_ON_UPDATE}

\* a mix of every kind of field, with resolvable and unresolvable targets
GeneralSubjects ==
    { Shape("scalar", t, FALSE, r, FALSE, d, {}, FALSE) :
        t \in {"String", "Json"}, r \in BOOLEAN, d \in {"none", "idDefault", "default"} }
    \cup
    { Shape("enum", "Role", FALSE, TRUE, FALSE, "none", {}, FALSE) }
    \cup
    { Shape("relation", t, l, FALSE, FALSE, "none", a, FALSE) :
        t \in {"A", "B", "X"}, l \in BOOLEAN,
        a \in { {}, {DTO_RELATION_CAN_CONNECT_ON_CREATE},
                {DTO_RELATION_CAN_CREATE_ON_CREATE, DTO_RELATION_CAN_CONNECT_ON_CREATE,
                 DTO_RELATION_CAN_CREATE_ON_UPDATE} } }
    \cup
    { Shape("relation", "X", FALSE, FALSE, FALSE, "none", AllModes \cup h, FALSE) :
        h \in {{DTO_ENTITY_HIDDEN}, {DTO_CREATE_HIDDEN}, {DTO_UPDATE_HIDDEN}} }
    \cup
    { Shape("type", t, FALSE, TRUE, FALSE, d, a, FALSE) :
        t \in {"B", "X"}, d \in {"none", "default"},
        a \in {{}, {DTO_ENTITY_HIDDEN}, {DTO_TYPE_FULL_UPDATE}} }

\* fields that every pipeline would keep, under every set of hide directives
HideSubjects ==
    { Shape(b[1], b[2], FALSE, b[3], b[4], b[5], b[6] \cup h, b[7]) :
        h \in HideSets,
        b \in { <<"scalar", "String", TRUE, FALSE, "none", {}, FALSE>>,
                <<"scalar", "String", FALSE, TRUE, "none", {DTO_RELATION_INCLUDE_ID}, TRUE>>,
                <<"relation", "B", FALSE, FALSE, "none", AllModes, FALSE>>,
                <<"type", "B", TRUE, FALSE, "none", {}, FALSE>>,
                <<"scalar", "String", TRUE, FALSE, "idDefault",
                  {DTO_CREATE_OPTIONAL, DTO_UPDATE_OPTIONAL}, FALSE>> } }

\* relations that own the foreign-key columns, nested types, and foreign-key columns
EntitySubjects ==
    { Shape("relation", t, l, r, FALSE, "none",
            IF q THEN {DTO_RELATION_REQUIRED} ELSE {}, TRUE) :
        t \in {"A", "B", "X"}, l \in BOOLEAN, r \in BOOLEAN, q \in BOOLEAN }
    \cup
    { Shape("type", t, FALSE, TRUE, FALSE, "none", a, FALSE) :
        t \in {"A", "B", "X"}, a \in {{}, {DTO_ENTITY_HIDDEN}} }
    \cup
    { Shape("scalar", "String", FALSE, r, TRUE, "none", a, TRUE) :
        r \in BOOLEAN, a \in {{}, {DTO_ENTITY_HIDDEN}} }

\* relation fields under every nesting-mode, cardinality and requiredness choice
RelationSubjects ==
    { Shape("relation", "B", lr[1], lr[2], FALSE, "none", q \cup o \cup m, FALSE) :
        lr \in {<<TRUE, TRUE>>, <<FALSE, TRUE>>, <<FALSE, FALSE>>},
        q \in {{}, {DTO_RELATION_REQUIRED}},
        o \in {{}, {DTO_CREATE_OPTIONAL, DTO_UPDATE_OPTIONAL}},
        m \in { {}, {DTO_RELATION_CAN_CONNECT_ON_CREATE, DTO_RELATION_CAN_CONNECT_ON_UPDATE},
                AllModes,
                {DTO_RELATION_CAN_CREATE_ON_CREATE, DTO_RELATION_CAN_UPDATE_ON_UPDATE} } }
    \cup
    { Shape("relation", "B", FALSE, FALSE, ro, "none", AllModes \cup h, FALSE) :
        ro \in BOOLEAN, h \in {{DTO_CREATE_HIDDEN}, {DTO_UPDATE_HIDDEN}} }
    \cup
    { Shape("relation", "B", FALSE, TRUE, FALSE, "default", AllModes \cup o, FALSE) :
        o \in {{}, {DTO_CREATE_OPTIONAL, DTO_UPDATE_OPTIONAL}} }
    \cup
    { Shape("type", "B", FALSE, TRUE, FALSE, d, a, FALSE) :
        d \in {"none", "default"}, a \in {{}, {DTO_TYPE_FULL_UPDATE}} }

\* scalars under every default, read-only, foreign-key, include-identifier and
\* optional choice, and a relation and a nested type with a default
DefaultSubjects ==
    { Shape("scalar", "String", FALSE, rd[1], rl[1], rd[2], a \cup o, rl[2]) :
        rd \in {<<TRUE, "none">>, <<TRUE, "default">>, <<FALSE, "default">>,
                <<TRUE, "idDefault">>, <<FALSE, "updatedAt">>},
        rl \in {<<FALSE, FALSE>>, <<TRUE, TRUE>>, <<TRUE, FALSE>>},
        a \in {{}, {DTO_RELATION_INCLUDE_ID}},
        o \in {{}, {DTO_CREATE_OPTIONAL, DTO_UPDATE_OPTIONAL}} }
    \cup
    { Shape("scalar", "String", FALSE, TRUE, TRUE, "none", {DTO_RELATION_INCLUDE_ID, h}, TRUE) :
        h \in {DTO_CREATE_HIDDEN, DTO_UPDATE_HIDDEN} }
    \cup
    { Shape("relation", "B", FALSE, TRUE, FALSE, "default", AllModes \cup o, FALSE) :
        o \in {{}, {DTO_CREATE_OPTIONAL, DTO_UPDATE_OPTIONAL}} }
    \cup
    { Shape("type", "B", FALSE, TRUE, FALSE, "default", o, FALSE) :
        o \in {{}, {DTO_CREATE_OPTIONAL, DTO_UPDATE_OPTIONAL}} }

Init == InitWith(GeneralSubjects)

Spec == Init /\ [][Next]_vars

InitHide == InitWith(HideSubjects)

SpecHide == InitHide /\ [][Next]_vars

InitEntity == InitWith(EntitySubjects)

SpecEntity == InitEntity /\ [][Next]_vars

InitRelation == InitWith(RelationSubjects)

SpecRelation == InitRelation /\ [][Next]_vars

InitDefaults == InitWith(DefaultSubjects)

SpecDefaults == InitDefaults /\ [][Next]_vars

\* ------------------------------------------------------------ claim vocabulary
\* the last call was pipeline op and it returned a record
Returned(op) == last.op = op /\ ~last.error.raised

\* the output field list of the last call
OutFields == last.record.fields

OutNames == {OutFields[j].name : j \in 1..Len(OutFields)}

\* the fields of the entity the last call was given
Given == models[last.model]

\* the nesting modes the Create pipeline asks the synthesizer about
CreateModes(field) ==
    field.annotations \cap {DTO_RELATION_CAN_CREATE_ON_CREATE,
                            DTO_RELATION_CAN_CONNECT_ON_CREATE,
                            DTO_RELATION_CAN_UPDATE_ON_UPDATE}

\* the directive that hides a field from pipeline op
HideDirective(op) ==
    CASE op = "entity" -> DTO_ENTITY_HIDDEN
      [] op = "create" -> DTO_CREATE_HIDDEN
      [] OTHER -> DTO_UPDATE_HIDDEN

\* C1: a field carrying the pipeline's hide directive is absent from that
\* pipeline's output field list, whatever else it carries
C1_HiddenFieldsAbsent ==
    last.op # "none" =>
        \A i \in 1..Len(Given) :
            isAnnotatedWith(Given[i], HideDirective(last.op)) => Given[i].name \notin OutNames

\* a Create call returned other fields while a create-optional field was hidden from it
C1_Witness ==
    /\ Returned("create")
    /\ OutNames # {}
    /\ \E i \in 1..Len(Given) :
        /\ isAnnotatedWith(Given[i], DTO_CREATE_HIDDEN)
        /\ isAnnotatedWith(Given[i], DTO_CREATE_OPTIONAL)
        /\ ~isReadOnly(Given[i])

\* the relation fields of the given entity that list column n as a foreign key
Owners(n) == {i \in 1..Len(Given) : n \in Given[i].relationFromFields}

\* C2: in the Entity output a tracked foreign-key scalar is required; it is
\* non-nullable when an owning relation carries relation-required and nullable
\* when no owning relation is schema-required or carries relation-required
C2_ForeignKeyScalar ==
    Returned("entity") =>
        \A j \in 1..Len(OutFields) :
            LET f == OutFields[j]
            IN  (f.kind = "scalar" /\ Owners(f.name) # {}) =>
                    /\ f.isRequired
                    /\ (\E i \in Owners(f.name) :
                            isAnnotatedWith(Given[i], DTO_RELATION_REQUIRED)) => ~f.isNullable
                    /\ (\A i \in Owners(f.name) :
                            /\ ~Given[i].isRequired
                            /\ ~isAnnotatedWith(Given[i], DTO_RELATION_REQUIRED)) => f.isNullable

\* an optional foreign-key column came out non-nullable because its only
\* owner, not schema-required, carries relation-required
C2_Witness ==
    /\ Returned("entity")
    /\ \E j \in 1..Len(OutFields) :
        /\ OutFields[j].kind = "scalar"
        /\ ~Given[OutFields[j].name].isRequired
        /\ Owners(OutFields[j].name) # {}
        /\ \A i \in Owners(OutFields[j].name) :
            ~Given[i].isRequired /\ isAnnotatedWith(Given[i], DTO_RELATION_REQUIRED)
        /\ OutFields[j].isRequired /\ ~OutFields[j].isNullable

\* C3: in the Create output a list relation that collapsed to a composite
\* nested-input type (more than one nesting mode) is not required
C3_ListCompositeNotRequired ==
    Returned("create") =>
        \A j \in 1..Len(OutFields) :
            LET f == OutFields[j]
            IN  (f.kind = "relation" /\ Given[f.name].isList
                 /\ Cardinality(CreateModes(Given[f.name])) > 1) => ~f.isRequired

\* a schema-required list relation with two modes and relation-required came out not required
C3_Witness ==
    /\ Returned("create")
    /\ \E j \in 1..Len(OutFields) :
        /\ OutFields[j].kind = "relation"
        /\ Given[OutFields[j].name].isList
        /\ Given[OutFields[j].name].isRequired
        /\ Cardinality(CreateModes(Given[OutFields[j].name])) > 1
        /\ isAnnotatedWith(Given[OutFields[j].name], DTO_RELATION_REQUIRED)
        /\ OutFields[j].type.via = OutFields[j].name
        /\ ~OutFields[j].isRequired

\* C4: a pipeline call leaves the read-only flag, the declared type and the
\* documentation of every field of the caller's entities as they were
C4_NoLeakIntoEntity ==
    [][\A m \in DOMAIN models :
        \A i \in 1..Len(models[m]) :
            /\ models'[m][i].isReadOnly = models[m][i].isReadOnly
            /\ models'[m][i].type = models[m][i].type
            /\ models'[m][i].documentation = models[m][i].documentation]_vars

\* what pipeline op answers for entity m of the entity set as it was supplied
Fresh(op, m) ==
    CASE op = "entity" -> computeEntityParams(m, pristine, config)
      [] op = "create" -> computeCreateDtoParams(m, pristine, config)
      [] OTHER -> computeUpdateDtoParams(m, pristine, config)

\* C5: what a call answers does not depend on the calls made before it: it is
\* what the same call answers on the entity set as it was supplied
C5_IndependentOfEarlierCalls ==
    last.op # "none" =>
        /\ last.error = Fresh(last.op, last.model).error
        /\ last.record = Fresh(last.op, last.model).record

\* the relation and nested-type fields of the given entity whose target is no entity of the set
Dangling == {i \in 1..Len(Given) :
                /\ Given[i].kind \in {"relation", "type"}
                /\ Given[i].type.base \notin DOMAIN models}

\* C6 as stated: a call aborts exactly when the entity has a relation or
\* nested-type field with an unknown target, naming the entity and the field
C6_AbortsOnAnyDanglingField ==
    last.op # "none" =>
        /\ last.error.raised <=> Dangling # {}
        /\ last.error.raised =>
            /\ last.record = NoRecord
            /\ last.error.model = last.model
            /\ \E i \in Dangling : last.error.field = Given[i].name

\* the pipeline op looks up the target of field f: the field is not dropped
\* by the exclusion rules that precede the lookup
LooksUp(op, f) ==
    CASE op = "entity" ->
            /\ f.kind \in {"relation", "type"}
            /\ ~isAnnotatedWith(f, DTO_ENTITY_HIDDEN)
      [] op = "create" ->
            /\ ~isAnnotatedWith(f, DTO_CREATE_HIDDEN)
            /\ ~f.isReadOnly
            /\ \/ f.kind = "relation"
                  /\ f.annotations \cap DTO_RELATION_MODIFIERS_ON_CREATE # {}
               \/ f.kind = "type"
                  /\ \/ isAnnotatedWith(f, DTO_CREATE_OPTIONAL)
                     \/ ~(f.isUpdatedAt \/ (f.hasDefaultValue /\ (f.isId \/ f.isRequired)))
      [] OTHER ->
            /\ ~isAnnotatedWith(f, DTO_UPDATE_HIDDEN)
            /\ ~f.isReadOnly
            /\ \/ f.kind = "relation"
                  /\ f.annotations \cap DTO_RELATION_MODIFIERS_ON_UPDATE # {}
               \/ f.kind = "type"
                  /\ \/ isAnnotatedWith(f, DTO_UPDATE_OPTIONAL)
                     \/ ~(f.isUpdatedAt \/ f.isId \/ (f.hasDefaultValue /\ f.isRequired))

LookedUpDangling == {i \in Dangling : LooksUp(last.op, Given[i])}

\* C6 amended: a call aborts exactly when a field whose target it looks up
\* has an unknown target; the error names the entity and the first such
\* field and no record is returned; otherwise a record is returned
C6_AbortsOnLookedUpDanglingField ==
    last.op # "none" =>
        /\ last.error.raised <=> LookedUpDangling # {}
        /\ last.error.raised =>
            /\ last.record = NoRecord
            /\ last.error.model = last.model
            /\ last.error.field \in LookedUpDangling
            /\ \A i \in LookedUpDangling : last.error.field <= i

\* a Create call threw for the nested type with an unknown target that is the
\* entity's second field, and returned no record
C6_Witness ==
    /\ last.op = "create"
    /\ last.error.raised
    /\ last.error.model = "A"
    /\ last.error.field > 1
    /\ Given[last.error.field].kind = "type"
    /\ last.record = NoRecord

\* what the synthesizer yields for relation field f in pipeline op
Synthesized(op, f) ==
    IF op = "create"
    THEN generateRelationInput(f, last.model, DOMAIN models, config, "CreateRelationInput",
                               DTO_RELATION_CAN_CREATE_ON_CREATE,
                               DTO_RELATION_CAN_CONNECT_ON_CREATE,
                               DTO_RELATION_CAN_UPDATE_ON_UPDATE)
    ELSE generateRelationInput(f, last.model, DOMAIN models, config, "UpdateRelationInput",
                               DTO_RELATION_CAN_CREATE_ON_UPDATE,
                               DTO_RELATION_CAN_CONNECT_ON_UPDATE,
                               DTO_RELATION_CAN_UPDATE_ON_UPDATE)

\* the names field f of the given entity asks to import from other entities
ImportedBy(op, f) ==
    IF f.kind = "relation"
    THEN UNION {SeqToSet(imp.destruct) : imp \in SeqToSet(Synthesized(op, f).imports)}
    ELSE IF f.kind = "type"
    THEN {IF op = "create" \/ isAnnotatedWith(f, DTO_TYPE_FULL_UPDATE)
          THEN createDtoName(f.type) ELSE updateDtoName(f.type)}
    ELSE {}

\* the given fields that are in the output of the last call
Kept == {Given[n] : n \in OutNames}

\* the validator names an output field carries
CarriedValidators(f) ==
    IF Has(f, "classValidators")
    THEN {f.classValidators[k].name : k \in 1..Len(f.classValidators)}
    ELSE {}

C8_NoDependenciesNoAnnotations ==
    (last.op # "none" /\ ~last.error.raised /\ config.noDependencies) =>
        /\ \A j \in 1..Len(OutFields) :
            /\ ~Has(OutFields[j], "classValidators")
            /\ ~Has(OutFields[j], "apiProperties")
        /\ \A imp \in SeqToSet(last.record.imports) :
            /\ imp.from # Lib("class-validator")
            /\ imp.from # Lib("@nestjs/swagger")
            /\ Sym("Type") \notin SeqToSet(imp.destruct)

\* C9: the Entity record never imports the artifact of the entity itself
C9_NoSelfImport ==
    Returned("entity") =>
        /\ \A imp \in SeqToSet(last.record.imports) :
            IsCrossImport(imp) => imp.from.dir # last.model
        /\ \A imp \in SeqToSet(last.handed) :
            IsCrossImport(imp) => imp.from.dir # last.model

\* an Entity call kept a relation to the entity itself and one to another entity
C9_Witness ==
    /\ Returned("entity")
    /\ \E f \in Kept : f.kind = "relation" /\ f.type.base = last.model
    /\ \E imp \in SeqToSet(last.record.imports) : IsCrossImport(imp)

\* the place of an import record: client-module and foundational records,
\* then feature-library records, then cross-entity records
ImportRank(imp) ==
    IF IsCrossImport(imp) THEN 3
    ELSE IF imp.from = Lib("@prisma/client") THEN 1
    ELSE IF imp.from = Lib("class-transformer") /\ Sym("Expose") \in SeqToSet(imp.destruct)
    THEN 1
    ELSE 2

InRankOrder(imports) ==
    \A i \in 1..Len(imports) : \A j \in 1..Len(imports) :
        i < j => ImportRank(imports[i]) <= ImportRank(imports[j])

\* C10: in the list handed to the canonicalizer and in the list it returns,
\* client and foundational records precede library records, which precede
\* cross-entity records
C10_ImportPrecedence ==
    (last.op # "none" /\ ~last.error.raised) =>
        InRankOrder(last.handed) /\ InRankOrder(last.record.imports)

\* a Create call handed over a client import, a library import and a cross-entity import
C10_Witness ==
    /\ Returned("create")
    /\ \E i \in 1..Len(last.handed) : last.handed[i].from = Lib("@prisma/client")
    /\ \E i \in 1..Len(last.handed) : last.handed[i].from = Lib("@nestjs/swagger")
    /\ \E i \in 1..Len(last.handed) : IsCrossImport(last.handed[i])

\* the place in the given entity of the field named n
DeclaredAt(n) == CHOOSE i \in 1..Len(Given) : Given[i].name = n

\* C11: the output field list of every pipeline is a subsequence of the
\* entity's declared field list: every output field is a declared field, no
\* field comes out twice, and the output keeps the declared order
C11_OutputIsSubsequence ==
    (last.op # "none" /\ ~last.error.raised) =>
        /\ \A j \in 1..Len(OutFields) :
            \E i \in 1..Len(Given) : Given[i].name = OutFields[j].name
        /\ \A j \in 1..Len(OutFields) : \A k \in 1..Len(OutFields) :
            j < k => DeclaredAt(OutFields[j].name) < DeclaredAt(OutFields[k].name)

\* a Create call kept two fields of the entity, the earlier declared one first
C11_Witness ==
    /\ Returned("create")
    /\ Len(OutFields) >= 2
    /\ OutFields[1].name = Given[1].name
    /\ OutFields[2].name = Given[2].name

\* the names of the output fields of the call a step makes
NextOutNames == {last'.record.fields[j].name : j \in 1..Len(last'.record.fields)}

\* C12 as stated: an Update call never puts out a field whose read-only flag
\* is set in the entity it is given, whatever directives the field carries
C12_ReadOnlyNeverInUpdate ==
    [][(last'.op = "update" /\ ~last'.error.raised) =>
        \A i \in 1..Len(models[last'.model]) :
            models[last'.model][i].isReadOnly =>
                models[last'.model][i].name \notin NextOutNames]_vars

\* field f of the fields given to an Update call is a tracked foreign-key
\* scalar carrying relation-include-identifier that the later rules keep
UpdateReincludes(f, fields) ==
    /\ isAnnotatedWith(f, DTO_RELATION_INCLUDE_ID)
    /\ f.name \in DOMAIN getRelationScalars(fields)
    /\ ~isAnnotatedWith(f, DTO_UPDATE_HIDDEN)
    /\ \/ isAnnotatedWith(f, DTO_UPDATE_OPTIONAL)
       \/ ~(isId(f) \/ isUpdatedAt(f) \/ isRequiredWithDefaultValue(f))

\* C12 amended: an Update call puts out a field whose read-only flag is set
\* in the entity it is given exactly when the field is a tracked foreign-key
\* scalar carrying relation-include-identifier, does not carry
\* hide-from-update, and is update-optional or none of identifier,
\* auto-timestamp and required-with-default
C12_ReadOnlyOnlyAsIncludedForeignKey ==
    [][(last'.op = "update" /\ ~last'.error.raised) =>
        \A i \in 1..Len(models[last'.model]) :
            models[last'.model][i].isReadOnly =>
                (models[last'.model][i].name \in NextOutNames
                    <=> UpdateReincludes(models[last'.model][i], models[last'.model]))]_vars

\* an Update call put out a foreign-key scalar that was supplied read-only
\* with relation-include-identifier
C12_Witness ==
    /\ Returned("update")
    /\ \E i \in 1..Len(Given) :
        /\ pristine[last.model][i].isReadOnly
        /\ isAnnotatedWith(Given[i], DTO_RELATION_INCLUDE_ID)
        /\ Owners(Given[i].name) # {}
        /\ Given[i].name \in OutNames

\* field f passes the exclusion rules of the Create pipeline that precede the
\* default-value rule; read-only is the flag as the pipeline tests it
PassesCreateExclusions(f) ==
    /\ ~isAnnotatedWith(f, DTO_CREATE_HIDDEN)
    /\ ~isReadOnly(f)
    /\ isRelation(f) => isAnnotatedWithOneOf(f, DTO_RELATION_MODIFIERS_ON_CREATE)
    /\ Owners(f.name) # {} => isAnnotatedWith(f, DTO_RELATION_INCLUDE_ID)

\* C13: in the Create output a field that passes the earlier exclusion rules
\* and is identifier-with-default, auto-timestamp or required-with-default is
\* absent when it lacks create-optional, and present and not required when
\* it carries create-optional
C13_CreateDefaultRule ==
    Returned("create") =>
        \A i \in 1..Len(Given) :
            (/\ PassesCreateExclusions(Given[i])
             /\ \/ isIdWithDefaultValue(Given[i])
                \/ isUpdatedAt(Given[i])
                \/ isRequiredWithDefaultValue(Given[i]))
            => IF isAnnotatedWith(Given[i], DTO_CREATE_OPTIONAL)
               THEN \E j \in 1..Len(OutFields) :
                        OutFields[j].name = Given[i].name /\ ~OutFields[j].isRequired
               ELSE Given[i].name \notin OutNames

\* a Create call put out a required field with a default that carries
\* create-optional, and put it out not required
C13_Witness ==
    /\ Returned("create")
    /\ \E i \in 1..Len(Given) :
        /\ PassesCreateExclusions(Given[i])
        /\ isRequiredWithDefaultValue(Given[i])
        /\ isAnnotatedWith(Given[i], DTO_CREATE_OPTIONAL)
        /\ \E j \in 1..Len(OutFields) :
            OutFields[j].name = Given[i].name /\ ~OutFields[j].isRequired

====
